---- MODULE Spec2Model ----
(***************************************************************************)
(* The turn-based game engine of src/lib/game/_game.py: the session driver *)
(* Game._run_game, the round driver Game._run_round, and the calls they    *)
(* make into the agents (decide, learn) and into the game (init, act,      *)
(* is_terminal).  The concrete games and agents are not part of the        *)
(* engine: what decide and act return is drawn from small sets.            *)
(***************************************************************************)
EXTENDS Integers, Sequences, FiniteSets, TLC

(* ------------------------------ bounds -------------------------------- *)

\* Number of distinct game-state values of the game being played.
NStates == 3
\* Number of actions a non-terminal state offers (state.actions).
NActions == 2
\* Length of the agent list handed to Game(game_type, agents).
NAgents == 2
\* Largest integer tried for play_again.
MaxCount == 3
\* Rounds after which the model stops starting new rounds.
MaxRounds == 2
\* Events the pygame queue holds at most.
MaxEvents == 1

(* ------------------------- values of the game ------------------------- *)

\* Python's None: the rejection act returns, and the initial new_state.
None == 0

States == 1..NStates
AgentIds == 0..(NAgents - 1)

\* What an agent's decide may return: an element of state.actions
\* (1..NActions on a non-terminal state) or something else (0).
Decisions == 0..NActions

\* The terminal state values a game over States can have, up to renaming
\* of the states: the last k of them, for every k.
TerminalSets == {(NStates - k + 1)..NStates : k \in 0..NStates}

(* ----------------------- values of the session ------------------------ *)

\* The surface pygame.display.set_mode returns (line 52): an object, truthy
\* and different from None.
Surface == 1

\* The speed argument of run: lines 81-89 tell 2, 1 and anything else apart.
Speeds == {0, 1, 2}

\* Milliseconds a decide/act step takes (end_t - start_t, line 107): less
\* than every positive turn budget, and more than the budget of speed 1.
ElapsedTimes == {0, 60}

\* The events the window posts, as lines 112-113 and 129 tell them apart: a
\* QUIT event, a KEYDOWN of the space key, a KEYDOWN of another key.
EventKinds == {"QUIT", "SPACE", "KEY"}

\* The play_again argument of Game.run: False/True, the string 'query', or
\* an integer.  t is the Python type, v the value (1 for True).
PlayAgainValues ==
    {[t |-> "bool", v |-> b] : b \in {0, 1}}
        \cup {[t |-> "str", v |-> 0]}
        \cup {[t |-> "int", v |-> n] : n \in 0..MaxCount}

Query == [t |-> "str", v |-> 0]

\* Python truth value of a play_again argument: False and 0 are falsy, a
\* non-empty string is truthy.
Truthy(x) == x.t = "str" \/ x.v # 0

\* isinstance(x, int): bool is a subclass of int.
IsInt(x) == x.t \in {"int", "bool"}

VARIABLES
    play_again,   \* the replay policy given to run
    init_state,   \* the state game_type.init(agents) returns
    terminal,     \* the state values whose is_terminal is True
    games,        \* the session result: the list of trajectories
    pc,           \* position of the simulation thread
    state,        \* _run_round: state
    states,       \* _run_round: states
    i,            \* _run_round: i, the index of the agent to ask
    new_state,    \* _run_round: new_state
    learn_k,      \* _run_round: position of the learn loop
    last,         \* the most recent decide/act call and what it returned
    log,          \* what the most recent decide attempt logged
    stop,         \* why the while loop of the round was left
    learned,      \* the learn calls made in this round
    prompts,      \* number of times the user was asked "play again?"
    display,      \* whether the game runs with display
    pause_on_turn, \* the pause_on_turn argument of run
    speed,        \* the speed argument of run
    turn_wait,    \* _run_round: turn_wait
    round_wait,   \* _run_round: round_wait
    events,       \* the pygame event queue
    main,         \* position of the main thread, which called run
    lock,         \* who holds _screen_lock
    surface,      \* what the screen surface shows
    pacing        \* milliseconds the pacing wait of line 116 takes this turn

\* The arguments of run that the session never changes.
params == <<display, pause_on_turn, speed>>

\* The wait budgets of the round.
budgets == <<turn_wait, round_wait>>

\* The shared surface and its lock.
screen == <<lock, surface>>

\* What the simulation thread shares with the window and the main thread.
outside == <<events, main>>

vars == <<play_again, init_state, terminal, games, pc, state, states, i,
          new_state, learn_k, last, log, stop, learned, prompts,
          params, budgets, screen, outside, pacing>>

\* GameState.is_terminal of the game being played.
is_terminal(s) == s \in terminal

\* GameState.actions: the legal actions of a state.  The property is the
\* game's, and nothing makes it empty on a terminal state.
actions(s) == 1..NActions

\* GameState.current_player of the game being played.  The value depends on
\* the state alone, so the same player may be current on consecutive turns.
current_player(s) == (s - 1) % NAgents

\* _action_is_valid without the membership test of line 244.
_action_is_valid_TerminalOnly(s, action) ==
    IF is_terminal(s) THEN None ELSE s

\* GameState._action_is_valid: None on a terminal state or an action that
\* is not in state.actions, the state itself otherwise.
_action_is_valid(s, action) ==
    IF is_terminal(s) THEN None
    ELSE IF ~(action \in actions(s)) THEN None
    ELSE s

\* GameState.act: the set of values act(action) can return on state s.  A
\* rejection is None; an accepted action yields a state of the game, which
\* one being the game's rules.
act(s, action) ==
    IF _action_is_valid(s, action) = None THEN {None} ELSE States

Range(seq) == {seq[n] : n \in 1..Len(seq)}

NoCall == [agent |-> -1, state |-> None, action |-> 0, result |-> None]

InvalidMsg == "Invalid action performed!"
RepeatMsg == "State has been repeated! Therefore, game is over."

(* ------------------------------- Init ---------------------------------- *)

\* Game.run up to game_thread.start(), for the arguments of run given by
\* d, p and sp: games = [], the queue of the window is empty, the surface
\* is untouched and the simulation thread is about to enter _run_game.
InitRun(d, p, sp) ==
    /\ display = d
    /\ pause_on_turn = p
    /\ speed = sp
    /\ turn_wait = 0
    /\ round_wait = 0
    /\ events = <<>>
    /\ main = "run"
    /\ lock = "free"
    /\ surface = None
    /\ pacing = 0
    /\ play_again \in PlayAgainValues
    /\ init_state \in States
    /\ terminal \in TerminalSets
    /\ games = <<>>
    /\ pc = "start"
    /\ state = None
    /\ states = <<>>
    /\ i = -1
    /\ new_state = None
    /\ learn_k = 0
    /\ last = NoCall
    /\ log = ""
    /\ stop = ""
    /\ learned = <<>>
    /\ prompts = 0

\* The headless session without pause on turn, at the default speed.
Init == InitRun(FALSE, FALSE, 2)

(* ----------------------------- _run_round ------------------------------ *)

\* game_type.init(agents)
init(agents) == init_state

\* Lines 50-54: the screen run creates.
RunScreen == IF display THEN Surface ELSE None

\* Line 67: _run_game calls _run_round(speed, pause_on_turn) and does not
\* pass its screen on, so the screen parameter of _run_round takes the
\* default of line 73 whatever scr is.
RoundScreen(scr) == None

\* Lines 78-89: the turn and round wait budgets in milliseconds, from the
\* screen parameter of _run_round and the speed.
WaitBudgets(scr, spd) ==
    IF scr = None THEN <<0, 0>>
    ELSE IF spd = 2 THEN <<0, 10>>
    ELSE IF spd = 1 THEN <<50, 100>>
    ELSE <<500, 1000>>

\* Lines 107 and 115-116: the milliseconds of the pacing wait after a
\* transition that took elapsed milliseconds; 0 when line 116 is skipped.
\* The display flag read here is the one given to the constructor, which
\* the model takes equal to the display argument of run.
PacingWait(budget, elapsed) ==
    IF budget - elapsed > 0 /\ display THEN budget - elapsed ELSE 0

\* _draw_state with the lock taken and never released.
_draw_state_KeepsLock(s) == [lock |-> "sim", surface |-> s]

\* Game._draw_state(s): the body holds a yield from, so _draw_state is a
\* generator function.  The call builds a generator object and runs none of
\* the body: the lock is not taken and nothing is written to the surface.
_draw_state(s) == [lock |-> lock, surface |-> surface]

\* Lines 74-89: the state of a new round.  _draw_state is a generator
\* function (its body holds a yield from), so the call only builds a
\* generator object and draws nothing.
RunRoundStart ==
    /\ pc = "start"
    /\ Len(games) < MaxRounds
    /\ state' = init(AgentIds)
    /\ states' = <<init(AgentIds)>>
    /\ i' = -1
    /\ new_state' = None
    /\ learn_k' = 0
    /\ last' = NoCall
    /\ log' = ""
    /\ stop' = ""
    /\ learned' = <<>>
    /\ lock' = _draw_state(init(AgentIds)).lock
    /\ surface' = _draw_state(init(AgentIds)).surface
    /\ turn_wait' = WaitBudgets(RoundScreen(RunScreen), speed)[1]
    /\ round_wait' = WaitBudgets(RoundScreen(RunScreen), speed)[2]
    /\ pc' = "while"
    /\ UNCHANGED <<play_again, init_state, terminal, games, prompts,
                   params, outside, pacing>>

\* LoopContinues with the "not" of line 90 dropped.
LoopContinues_Negated(s) == is_terminal(s)

\* Line 90: the condition of the while loop.
LoopContinues(s) == ~is_terminal(s)

\* Line 92: the agent index of the next turn.
NextAgent(idx) == (idx + 1) % NAgents

\* Line 90, condition false: the loop is left on a terminal state.
WhileExit ==
    /\ pc = "while"
    /\ ~LoopContinues(state)
    /\ stop' = "terminal"
    /\ learn_k' = 0
    /\ pc' = "learn"
    /\ UNCHANGED <<play_again, init_state, terminal, games, state, states,
                   i, new_state, last, log, learned, prompts,
                   params, budgets, screen, outside, pacing>>

\* Lines 90-92: a new turn.
WhileTurn ==
    /\ pc = "while"
    /\ LoopContinues(state)
    /\ new_state' = None
    /\ i' = NextAgent(i)
    /\ pc' = "decide"
    /\ UNCHANGED <<play_again, init_state, terminal, games, state, states,
                   learn_k, last, log, stop, learned, prompts,
                   params, budgets, screen, outside, pacing>>

\* Line 95: the agent asked on this attempt.
AgentAsked == i

\* Rejected with line 92 moved into the inner loop: a rejected attempt
\* passes the turn to the next agent.
Rejected_NextAgent(action, result) ==
    /\ new_state' = result
    /\ last' = [agent |-> AgentAsked, state |-> state, action |-> action,
                result |-> result]
    /\ log' = InvalidMsg
    /\ i' = NextAgent(i)
    /\ pc' = "decide"
    /\ UNCHANGED <<play_again, init_state, terminal, games, state, states,
                   learn_k, stop, learned, prompts,
                   params, budgets, screen, outside, pacing>>

\* Lines 93-99 on a rejection: agent.decide(state), state.act(action)
\* returns None, the diagnostic is logged and the inner loop repeats.
Rejected(action, result) ==
    /\ new_state' = result
    /\ last' = [agent |-> AgentAsked, state |-> state, action |-> action,
                result |-> result]
    /\ log' = InvalidMsg
    /\ pc' = "decide"
    /\ UNCHANGED <<play_again, init_state, terminal, games, state, states,
                   i, learn_k, stop, learned, prompts,
                   params, budgets, screen, outside, pacing>>

\* The test against the most recent state of the trajectory alone.
Repeats_LastOnly(new, sts) == new = sts[Len(sts)]

\* Line 101: new_state in states.
Repeats(new, sts) == new \in Range(sts)

\* Repeated with lines 104 and 101 swapped: the new state is appended
\* before the loop is left.
Repeated_AppendFirst(action, result) ==
    /\ new_state' = result
    /\ last' = [agent |-> AgentAsked, state |-> state, action |-> action,
                result |-> result]
    /\ log' = RepeatMsg
    /\ states' = Append(states, result)
    /\ stop' = "repeat"
    /\ learn_k' = 0
    /\ lock' = _draw_state(result).lock
    /\ surface' = _draw_state(result).surface
    /\ pc' = "learn"
    /\ UNCHANGED <<play_again, init_state, terminal, games, state, i,
                   learned, prompts,
                   params, budgets, outside, pacing>>

\* Repeated with continue in place of the break of line 103: the repeat
\* is logged and the while loop goes on.
Repeated_Continue(action, result) ==
    /\ new_state' = result
    /\ last' = [agent |-> AgentAsked, state |-> state, action |-> action,
                result |-> result]
    /\ log' = RepeatMsg
    /\ lock' = _draw_state(result).lock
    /\ surface' = _draw_state(result).surface
    /\ pc' = "while"
    /\ UNCHANGED <<play_again, init_state, terminal, games, state, states,
                   i, learn_k, stop, learned, prompts,
                   params, budgets, outside, pacing>>

\* Lines 100-103: the new state already occurs in the trajectory; the loop
\* is left by break, before the append of line 104.
Repeated(action, result) ==
    /\ new_state' = result
    /\ last' = [agent |-> AgentAsked, state |-> state, action |-> action,
                result |-> result]
    /\ log' = RepeatMsg
    /\ stop' = "repeat"
    /\ learn_k' = 0
    /\ lock' = _draw_state(result).lock
    /\ surface' = _draw_state(result).surface
    /\ pc' = "learn"
    /\ UNCHANGED <<play_again, init_state, terminal, games, state, states, i,
                   learned, prompts,
                   params, budgets, outside, pacing>>

\* Appended with state in place of new_state in line 104.
Appended_Stale(action, result) ==
    /\ new_state' = result
    /\ last' = [agent |-> AgentAsked, state |-> state, action |-> action,
                result |-> result]
    /\ log' = ""
    /\ states' = Append(states, state)
    /\ state' = result
    /\ lock' = _draw_state(result).lock
    /\ surface' = _draw_state(result).surface
    /\ \E elapsed \in ElapsedTimes : pacing' = PacingWait(turn_wait, elapsed)
    /\ pc' = IF pause_on_turn THEN "pause_clear" ELSE "while"
    /\ UNCHANGED <<play_again, init_state, terminal, games, i, learn_k,
                   stop, learned, prompts,
                   params, budgets, outside>>

\* Lines 100-107: the new state is drawn, appended and becomes current; the
\* pause loop of lines 109-114 follows when pause_on_turn is set.  The
\* pacing wait of line 116 needs turn_wait minus the elapsed time to be
\* positive.
Appended(action, result) ==
    /\ new_state' = result
    /\ last' = [agent |-> AgentAsked, state |-> state, action |-> action,
                result |-> result]
    /\ log' = ""
    /\ states' = Append(states, result)
    /\ state' = result
    /\ lock' = _draw_state(result).lock
    /\ surface' = _draw_state(result).surface
    /\ \E elapsed \in ElapsedTimes : pacing' = PacingWait(turn_wait, elapsed)
    /\ pc' = IF pause_on_turn THEN "pause_clear" ELSE "while"
    /\ UNCHANGED <<play_again, init_state, terminal, games, i, learn_k, stop,
                   learned, prompts,
                   params, budgets, outside>>

\* Lines 93-99, act returned None.
DecideRejected ==
    /\ pc = "decide"
    /\ \E action \in Decisions : \E result \in act(state, action) :
          /\ result = None
          /\ Rejected(action, result)

\* Lines 93-103, act returned a state that is in states.
DecideRepeated ==
    /\ pc = "decide"
    /\ \E action \in Decisions : \E result \in act(state, action) :
          /\ result # None
          /\ Repeats(result, states)
          /\ Repeated(action, result)

\* Lines 93-116, act returned a state that is not in states.
DecideAppended ==
    /\ pc = "decide"
    /\ \E action \in Decisions : \E result \in act(state, action) :
          /\ result # None
          /\ ~Repeats(result, states)
          /\ Appended(action, result)

\* LearnCall with enumerate(self.agents, 1): player ids counted from 1.
LearnCall_FromOne(k) == [agent |-> k, player_id |-> k + 1, states |-> states]

\* Line 117: what enumerate(self.agents) yields at position k.
LearnCall(k) == [agent |-> k, player_id |-> k, states |-> states]

\* Lines 117-118: one iteration of the learn loop.
Learn ==
    /\ pc = "learn"
    /\ learn_k < NAgents
    /\ learned' = Append(learned, LearnCall(learn_k))
    /\ learn_k' = learn_k + 1
    /\ UNCHANGED <<play_again, init_state, terminal, games, pc, state, states, i,
                   new_state, last, log, stop, prompts,
                   params, budgets, screen, outside, pacing>>

(* ------------------------------ _run_game ------------------------------ *)

\* Game._play_again(): the function body holds a yield from, so it is a
\* generator function.  The call returns a generator object without
\* running any of the body: nobody is asked, and the object is truthy.
_play_again == [t |-> "str", v |-> 1]

\* Break without the "not play_again" test of line 68.
Break_NoNever(pa, n) ==
    \/ (pa = Query /\ ~Truthy(_play_again))
    \/ (IsInt(pa) /\ n < pa.v)

\* Lines 68-70: the condition under which _run_game leaves its loop, with
\* n the length of games after the append.
Break(pa, n) ==
    \/ ~Truthy(pa)
    \/ (pa = Query /\ ~Truthy(_play_again))
    \/ (IsInt(pa) /\ n < pa.v)

\* Lines 119-120 and 67-71: the round returns states, _run_game appends it
\* to games and decides whether to play again.
ReturnRound ==
    /\ pc = "learn"
    /\ learn_k = NAgents
    /\ games' = Append(games, states)
    /\ pc' = IF Break(play_again, Len(games) + 1) THEN "done" ELSE "start"
    /\ UNCHANGED <<play_again, init_state, terminal, state, states, i, new_state,
                   learn_k, last, log, stop, learned, prompts,
                   params, budgets, screen, outside, pacing>>

Next ==
    \/ RunRoundStart
    \/ WhileExit
    \/ WhileTurn
    \/ DecideRejected
    \/ DecideRepeated
    \/ DecideAppended
    \/ Learn
    \/ ReturnRound

Spec == Init /\ [][Next]_vars

(* ------------------- rounds with well-behaved agents ------------------- *)

\* A session of one round: a replay policy under which _run_game leaves its
\* loop after the first round.  _run_round starts every round from the same
\* values (lines 74-76), so one round shows what any round can do.
InitOneRound == Init /\ Break(play_again, 1)

\* The simulation thread when every decide returns an element of
\* state.actions: act never rejects.
NextLegal ==
    \/ RunRoundStart
    \/ WhileExit
    \/ WhileTurn
    \/ DecideRepeated
    \/ DecideAppended
    \/ Learn
    \/ ReturnRound

\* The thread is scheduled as long as it can take a step, and decide, act
\* and learn return.
FairSpec == InitOneRound /\ [][NextLegal]_vars /\ WF_vars(NextLegal)

(* ------------------ faults, events and the main thread ----------------- *)

\* Lines 117-118 when agent.learn raises.  Neither _run_round nor _run_game
\* has a try statement, so the exception leaves _run_game: the simulation
\* thread ends, the remaining agents are not called and the trajectory of
\* the round is not added to games.  Nothing is logged by the game.
LearnFault ==
    /\ pc = "learn"
    /\ learn_k < NAgents
    /\ learned' = Append(learned, LearnCall(learn_k))
    /\ pc' = "crashed"
    /\ UNCHANGED <<play_again, init_state, terminal, games, state, states, i,
                   new_state, learn_k, last, log, stop, prompts,
                   params, budgets, screen, outside, pacing>>

\* Line 110: pygame.event.clear() removes every event from the queue.
PauseClear ==
    /\ pc = "pause_clear"
    /\ events' = <<>>
    /\ pc' = "pause_wait"
    /\ UNCHANGED <<play_again, init_state, terminal, games, state, states, i,
                   new_state, learn_k, last, log, stop, learned, prompts,
                   params, budgets, screen, main, pacing>>

\* The test with every key press taken for the confirm key.
IsConfirm_AnyKey(e) == e \in {"SPACE", "KEY"}

\* Lines 112-113: the event is a KEYDOWN of the space key.
IsConfirm(e) == e = "SPACE"

\* Lines 111-114: pygame.event.wait() blocks until the queue holds an
\* event and removes it; the loop is left on the confirm key and goes
\* back to line 110 on anything else.
PauseWait ==
    /\ pc = "pause_wait"
    /\ events # <<>>
    /\ events' = Tail(events)
    /\ pc' = IF IsConfirm(Head(events)) THEN "while" ELSE "pause_clear"
    /\ UNCHANGED <<play_again, init_state, terminal, games, state, states, i,
                   new_state, learn_k, last, log, stop, learned, prompts,
                   params, budgets, screen, main, pacing>>

\* The simulation thread has ended: _run_game returned or an exception
\* left it.
ThreadEnded == pc \in {"done", "crashed"}

\* The user acts on the window pygame.init() opened (line 51) while the
\* simulation thread is alive: an event is added to the queue.
PostEvent ==
    /\ display
    /\ ~ThreadEnded
    /\ Len(events) < MaxEvents
    /\ \E e \in EventKinds : events' = Append(events, e)
    /\ UNCHANGED <<play_again, init_state, terminal, games, pc, state, states, i,
                   new_state, learn_k, last, log, stop, learned, prompts,
                   params, budgets, screen, main, pacing>>

\* Game._run_display(screen, game_thread): the body holds a yield from, so
\* the call of line 60 builds a generator object that run drops.  None of
\* the loop runs: the call does not wait for the simulation thread, takes
\* no event from the queue and never reaches sys.exit().
_run_display(evts) == [waits |-> FALSE, events |-> evts, exits |-> FALSE]

\* Lines 59-60 and 63: run with display.
MainDisplay ==
    /\ display
    /\ main = "run"
    /\ _run_display(events).waits => ThreadEnded
    /\ events' = _run_display(events).events
    /\ main' = IF _run_display(events).exits THEN "exited" ELSE "returned"
    /\ UNCHANGED <<play_again, init_state, terminal, games, pc, state, states, i,
                   new_state, learn_k, last, log, stop, learned, prompts,
                   params, budgets, screen, pacing>>

\* Lines 61-63: run without display returns once game_thread.join() has.
MainJoin ==
    /\ ~display
    /\ main = "run"
    /\ ThreadEnded
    /\ main' = "returned"
    /\ UNCHANGED <<play_again, init_state, terminal, games, pc, state, states, i,
                   new_state, learn_k, last, log, stop, learned, prompts,
                   params, budgets, screen, events, pacing>>

\* The steps of the simulation thread that need nothing from outside.
SimStep ==
    \/ Next
    \/ PauseClear
    \/ PauseWait

\* The steps of the main thread.
MainStep ==
    \/ MainDisplay
    \/ MainJoin

\* A session of one round, with or without display, at every speed.  The
\* pause on turn reads the event queue of the window, so it is used with
\* display only.
InitSession ==
    \E d \in BOOLEAN, p \in BOOLEAN, sp \in Speeds :
        /\ p => d
        /\ InitRun(d, p, sp)
        /\ Break(play_again, 1)

NextSession ==
    \/ SimStep
    \/ LearnFault
    \/ PostEvent
    \/ MainStep

RunSpec == InitSession /\ [][NextSession]_vars

\* Both threads are scheduled as long as they can take a step; the user
\* need not touch the window, and learn need not fail.
FairRunSpec ==
    InitSession /\ [][NextSession]_vars /\ WF_vars(SimStep) /\ WF_vars(MainStep)

(* --------------------------- validation alone -------------------------- *)

\* state._action_is_valid(action) called on any state of the game with
\* anything an agent can return; the call and its value are kept in last.
Validate ==
    /\ \E s \in States, action \in Decisions :
          last' = [agent |-> -1, state |-> s, action |-> action,
                   result |-> _action_is_valid(s, action)]
    /\ UNCHANGED <<play_again, init_state, terminal, games, pc, state, states, i,
                   new_state, learn_k, log, stop, learned, prompts,
                   params, budgets, screen, outside, pacing>>

ValidSpec == Init /\ [][Validate]_vars

(* ------------------------------- claims -------------------------------- *)

\* A round has returned: its trajectory is the last element of games, and
\* the variables of _run_round still hold what the round left.
Returned == pc \in {"start", "done"} /\ Len(games) >= 1

LastGame == games[Len(games)]

\* The round went A -> B -> A: it visited the initial state A and one other
\* state B, and act then returned A on B.
CycleABA ==
    /\ Returned
    /\ stop = "repeat"
    /\ last.state # init_state
    /\ last.result = init_state
    /\ Range(LastGame) = {init_state, last.state}

C2_FixedCountPlaysN ==
    (play_again.t = "int" /\ play_again.v >= 1) =>
        /\ Len(games) <= play_again.v
        /\ (pc = "done" => Len(games) = play_again.v)

\* C3: with a falsy play_again the session plays exactly one round: it
\* stops as soon as one trajectory is collected, and nobody is asked
\* whether to play again.
C3_NeverPlaysOneRound ==
    ~Truthy(play_again) =>
        /\ Len(games) <= 1
        /\ (Len(games) = 1 <=> pc = "done")
        /\ prompts = 0

C3_Witness == ~Truthy(play_again) /\ pc = "done" /\ Len(games) = 1

\* C4: with play_again = 'query' the user has been asked once for every
\* completed round whenever the session is between rounds or has stopped.
C4_QueryAsksAfterEveryRound ==
    (play_again = Query /\ pc \in {"start", "done"}) =>
        prompts = Len(games)

\* C5: the agent asked to decide is agents[state.current_player] of the
\* state it is asked on.
C5_AskedIsCurrentPlayer ==
    last # NoCall => last.agent = current_player(last.state)

\* C6: a decide attempt whose action act rejects logs the invalid-action
\* diagnostic and leaves the trajectory, the current state and the agent
\* index as they were, with the same agent about to be asked again.
C6_RejectionRetriesSameTurn ==
    [][(pc = "decide" /\ new_state' = None) =>
          /\ log' = InvalidMsg
          /\ pc' = "decide"
          /\ states' = states
          /\ state' = state
          /\ i' = i
          /\ last'.agent = i
          /\ last'.state = state]_vars

C6_Witness ==
    /\ pc = "decide"
    /\ log = InvalidMsg
    /\ last.result = None
    /\ last.agent = i
    /\ Len(states) >= 2

\* C7: a trajectory starts with the state init returned; every later
\* element is what act returned for the action the asked agent chose on the
\* element before it; None is never an element.
C7_TrajectoryFollowsAct ==
    /\ [](states # <<>> => states[1] = init_state)
    /\ [](None \notin Range(states))
    /\ [](\A g \in Range(games) : g[1] = init_state /\ None \notin Range(g))
    /\ [][states' # states =>
            \/ states' = <<init_state>>
            \/ /\ states' = Append(states, last'.result)
               /\ last'.state = states[Len(states)]
               /\ last'.agent = i
               /\ last'.result \in act(last'.state, last'.action)
               /\ last'.result # None]_vars
    /\ [][games' # games => games' = Append(games, states)]_vars

C7_Witness == Returned /\ Len(LastGame) = NStates /\ stop = "terminal"

\* C8: a round stops because the current state is terminal or because the
\* new state already occurs in the trajectory, never both.  A trajectory
\* whose round was not stopped by a repeat ends in a terminal state, and no
\* state before the last of a trajectory is terminal.
C8_StopsOnTerminalOrRepeat ==
    /\ (pc = "learn" \/ Returned) =>
          /\ stop \in {"terminal", "repeat"}
          /\ stop = "terminal" <=> is_terminal(states[Len(states)])
          /\ stop = "repeat" => Repeats(new_state, states)
          /\ \A n \in 1..(Len(states) - 1) : ~is_terminal(states[n])
    /\ \A g \in Range(games) :
          \A n \in 1..(Len(g) - 1) : ~is_terminal(g[n])
    /\ Returned => LastGame = states

C8_Witness ==
    /\ Returned
    /\ stop = "terminal"
    /\ Len(LastGame) >= 2
    /\ is_terminal(LastGame[Len(LastGame)])

\* C9: with agents that only choose legal actions, every round that has
\* started returns its trajectory.
C9_RoundTerminates ==
    (pc \in {"while", "decide", "learn"}) ~> Returned

C9_Witness == Returned /\ stop = "repeat" /\ Len(LastGame) = NStates

\* C10: when a trajectory is added to the session result, learn has been
\* called exactly once for each agent, in list order, with that trajectory
\* and the agent's own index; no decide follows the first learn of a round.
C10_LearnOncePerAgent ==
    /\ Returned =>
          /\ Len(learned) = NAgents
          /\ \A k \in AgentIds :
                learned[k + 1] =
                    [agent |-> k, player_id |-> k, states |-> LastGame]
    /\ learned # <<>> => pc \in {"learn", "start", "done"}
    /\ pc = "learn" => Len(learned) = learn_k /\ learn_k <= NAgents

C10_Witness ==
    /\ Returned
    /\ Len(games) = 2
    /\ Len(learned) = NAgents
    /\ Len(LastGame) >= 2

\* C11 as stated: a fault of a learn hook is contained.  The simulation
\* thread ends only by leaving _run_game, and then learn has been called
\* for every agent and the trajectory of the round is in the session
\* result.
C11_LearnFaultContained ==
    ThreadEnded =>
        /\ pc = "done"
        /\ Len(learned) = NAgents
        /\ Len(games) >= 1

\* The state the simulation thread drew last: line 77 draws the initial
\* state, line 100 every state act returned.
Drawn == IF new_state # None THEN new_state ELSE state

QuitPending == "QUIT" \in Range(events)

C14_RunReturnsAfterSimulation ==
    main = "returned" => ThreadEnded

\* C15: _action_is_valid returns None exactly when the state is terminal
\* or the action is not in state.actions, and otherwise returns the state
\* it was called on.
C15_ValidationRejectsExactly ==
    (last.agent = -1 /\ last.state # None) =>
        /\ last.result = None <=>
              (is_terminal(last.state) \/ last.action \notin actions(last.state))
        /\ last.result # None => last.result = last.state

\* A terminal state rejects an action its own actions property lists.
C15_Witness ==
    /\ last.agent = -1
    /\ last.state # None
    /\ is_terminal(last.state)
    /\ last.action \in actions(last.state)
    /\ last.result = None

\* C16 as stated: with display a round uses the wait budgets of its speed,
\* 0/10 ms for speed 2, 50/100 ms for speed 1 and 500/1000 ms otherwise.
C16_BudgetsFollowSpeed ==
    (display /\ pc # "start") =>
        <<turn_wait, round_wait>> = WaitBudgets(Surface, speed)

\* The simulation thread is in a wait: the key wait of the pause on turn
\* (line 111) or the wait at the end of the round (line 119).
Waiting == pc = "pause_wait" \/ (pc = "learn" /\ learn_k = NAgents)

\* C17: the simulation thread does not hold the screen lock while it
\* waits.
C17_NoLockWhileWaiting ==
    Waiting => lock # "sim"

C17_Witness ==
    /\ pc = "pause_wait"
    /\ events = <<>>
    /\ Len(states) >= 2
    /\ lock = "free"

\* The simulation thread is in the pause loop of lines 109-114.
Paused == pc \in {"pause_clear", "pause_wait"}

\* C18: with pause_on_turn, every transition appended to the trajectory is
\* followed by the pause loop before any agent is asked or the round ends,
\* and the pause loop is left only by receiving the SPACE key.
C18_PauseWaitsForSpace ==
    [][/\ (pause_on_turn /\ states # <<>> /\ Len(states') > Len(states))
            => pc' = "pause_clear"
       /\ (Paused /\ pc' \notin {"pause_clear", "pause_wait"})
            => /\ pc = "pause_wait"
               /\ events # <<>>
               /\ Head(events) = "SPACE"
               /\ pc' = "while"]_vars

\* The pause was left and the next agent is asked.
C18_Witness ==
    /\ pause_on_turn
    /\ pc = "decide"
    /\ Len(states) >= 2

\* C19: the states of a trajectory are pairwise distinct, while the round
\* builds it and in the session result.
C19_TrajectoryDistinct ==
    /\ \A m, n \in 1..Len(states) : states[m] = states[n] => m = n
    /\ \A g \in 1..Len(games) :
          \A m, n \in 1..Len(games[g]) : games[g][m] = games[g][n] => m = n

\* A round that was ended by act returning the initial state again.
C19_Witness ==
    /\ Returned
    /\ stop = "repeat"
    /\ Len(LastGame) >= 2
    /\ last.result = LastGame[1]
    /\ last.state = LastGame[Len(LastGame)]

\* C20 as stated: the simulation thread never discards a pending quit
\* signal.  A quit signal in the queue stays there until sys.exit() ends
\* the process.
C20_QuitNeverDiscarded ==
    [][QuitPending => (("QUIT" \in Range(events')) \/ main' = "exited")]_vars

====
